---- MODULE Spec2Model ----
(***************************************************************************)
(* A model of src/index.ts (parseTypedFormData and its helpers).           *)
(*                                                                         *)
(* Strings are sequences of lexemes: a lexeme is an atomic piece of text   *)
(* ("::", ".", ",", " ", "tags", "22", ...), and every string operation of *)
(* the source (split, trim, toLowerCase, join, the regular expression of   *)
(* parseFieldName) is computed on these sequences.  Values of the output   *)
(* tree are records [t, s, el, pr]: t the JavaScript kind, s the scalar    *)
(* payload (a string), el the elements of an array, pr the own properties  *)
(* (a set of <<name, value>> pairs) of an object, array, Date or File.     *)
(* Properties inherited from Object.prototype are outside the model: the   *)
(* property names used are ordinary names.                                 *)
(***************************************************************************)
EXTENDS Integers, Sequences, FiniteSets, TLC

(* ------------------------------ strings ------------------------------ *)

\* whitespace lexemes (String.prototype.trim)
WhiteSpace == {" "}

\* lexemes matched by [a-z]+ with the i flag
Letters ==
  {"string", "number", "boolean", "array", "json", "date", "list", "LIST",
   "file", "key", "value", "KEY", "a", "b", "k", "x", "y", "length", "abc",
   "true", "TRUE", "no", "null"}

\* String.prototype.toLowerCase, per lexeme
LowerLexeme(c) ==
  CASE c = "LIST" -> "list"
    [] c = "KEY" -> "key"
    [] c = "TRUE" -> "true"
    [] OTHER -> c

toLowerCase(s) == [i \in 1..Len(s) |-> LowerLexeme(s[i])]

RECURSIVE TrimStart(_)
TrimStart(s) ==
  IF s # <<>> /\ Head(s) \in WhiteSpace THEN TrimStart(Tail(s)) ELSE s

RECURSIVE TrimEnd(_)
TrimEnd(s) ==
  IF s # <<>> /\ s[Len(s)] \in WhiteSpace
  THEN TrimEnd(SubSeq(s, 1, Len(s) - 1))
  ELSE s

trim(s) == TrimEnd(TrimStart(s))

IsPrefix(p, s) == Len(p) <= Len(s) /\ SubSeq(s, 1, Len(p)) = p

RECURSIVE SplitFrom(_, _, _)
SplitFrom(s, sep, cur) ==
  IF s = <<>> THEN <<cur>>
  ELSE IF IsPrefix(sep, s)
       THEN <<cur>> \o SplitFrom(SubSeq(s, Len(sep) + 1, Len(s)), sep, <<>>)
       ELSE SplitFrom(Tail(s), sep, Append(cur, Head(s)))

\* String.prototype.split(sep): an empty separator splits into single units
split(s, sep) ==
  IF sep = <<>> THEN [i \in 1..Len(s) |-> <<s[i]>>] ELSE SplitFrom(s, sep, <<>>)

RECURSIVE join(_, _)
join(parts, sep) ==
  IF parts = <<>> THEN <<>>
  ELSE IF Len(parts) = 1 THEN parts[1]
  ELSE parts[1] \o sep \o join(Tail(parts), sep)

RECURSIVE FilterNonEmpty(_)
FilterNonEmpty(parts) ==
  IF parts = <<>> THEN <<>>
  ELSE IF Head(parts) = <<>> THEN FilterNonEmpty(Tail(parts))
  ELSE <<Head(parts)>> \o FilterNonEmpty(Tail(parts))

\* path.split(".").filter(Boolean)
PathParts(path) == FilterNonEmpty(split(path, <<".">>))

(* ------------------------------- values ------------------------------ *)

Mk(t, s, el, pr) == [t |-> t, s |-> s, el |-> el, pr |-> pr]

Undefined == Mk("undefined", <<>>, <<>>, {})
Null == Mk("null", <<>>, <<>>, {})
Str(s) == Mk("string", s, <<>>, {})
Num(c) == Mk("number", <<c>>, <<>>, {})
Bool(c) == Mk("boolean", <<c>>, <<>>, {})
DateOf(s) == Mk("date", s, <<>>, {})
FileOf(s) == Mk("file", s, <<>>, {})
Arr(el) == Mk("array", <<>>, el, {})
Obj(pr) == Mk("object", <<>>, <<>>, pr)
EmptyObject == Obj({})
\* the outcome of a call that raised
Thrown == Mk("throw", <<>>, <<>>, {})

IsThrown(v) == v.t = "throw"
IsArray(v) == v.t = "array"

\* typeof v === "object"
TypeofObject(v) == v.t \in {"null", "array", "object", "date", "file"}

\* ToBoolean(v)
Truthy(v) ==
  /\ v.t \notin {"undefined", "null"}
  /\ ~(v.t = "string" /\ v.s = <<>>)
  /\ ~(v.t = "number" /\ v.s = <<"0">>)
  /\ ~(v.t = "boolean" /\ v.s = <<"false">>)

\* the decimal numerals that denote array indices and lengths, and the
\* numbers they denote
IndexValue ==
  [c \in {ToString(n) : n \in 0..40} |-> CHOOSE n \in 0..40 : ToString(n) = c]

IsIndex(p) == Len(p) = 1 /\ p[1] \in DOMAIN IndexValue

HasOwn(v, p) == \E q \in v.pr : q[1] = p

Own(v, p) == IF HasOwn(v, p) THEN (CHOOSE q \in v.pr : q[1] = p)[2] ELSE Undefined

\* cur[p] read on a value with typeof "object"
Get(cur, p) ==
  IF IsArray(cur) /\ IsIndex(p)
  THEN IF IndexValue[p[1]] < Len(cur.el) THEN cur.el[IndexValue[p[1]] + 1]
       ELSE Undefined
  ELSE IF IsArray(cur) /\ p = <<"length">> THEN Num(ToString(Len(cur.el)))
  ELSE Own(cur, p)

\* an array's elements with index n set to v (holes read as undefined)
SetIndex(el, n, v) ==
  [i \in 1..(IF n + 1 > Len(el) THEN n + 1 ELSE Len(el)) |->
     IF i = n + 1 THEN v ELSE IF i <= Len(el) THEN el[i] ELSE Undefined]

\* ToNumber(v) is a valid array length: v is an array of one number
IsLengthValue(v) ==
  IsArray(v) /\ Len(v.el) = 1 /\ v.el[1].t = "number"
    /\ v.el[1].s[1] \in DOMAIN IndexValue

\* cur[p] = v on a value with typeof "object"; RangeError for a bad length
SetProp(cur, p, v) ==
  IF IsArray(cur) /\ IsIndex(p)
  THEN [cur EXCEPT !.el = SetIndex(cur.el, IndexValue[p[1]], v)]
  ELSE IF IsArray(cur) /\ p = <<"length">>
  THEN IF IsLengthValue(v)
       THEN [cur EXCEPT !.el =
               [i \in 1..IndexValue[v.el[1].s[1]] |->
                  IF i <= Len(cur.el) THEN cur.el[i] ELSE Undefined]]
       ELSE Thrown
  ELSE [cur EXCEPT !.pr = {q \in cur.pr : q[1] # p} \cup {<<p, v>>}]

isEmptyValue(v) ==
  (v.t = "string" /\ v.s = <<>>) \/ v.t = "null" \/ v.t = "undefined"

isPlainObject(v) ==
  v.t # "null" /\ TypeofObject(v) /\ ~IsArray(v) /\ v.t # "date"

RECURSIVE SetPath(_, _, _)
SetPath(cur, parts, value) ==
  IF Len(parts) = 1 THEN SetProp(cur, parts[1], value)
  ELSE LET p == parts[1]
           fresh == ~Truthy(Get(cur, p)) \/ ~TypeofObject(Get(cur, p))
           cur1 == IF fresh THEN SetProp(cur, p, EmptyObject) ELSE cur
       IN IF IsThrown(cur1) THEN Thrown
          ELSE LET sub == SetPath(Get(cur1, p), Tail(parts), value)
               IN IF IsThrown(sub) THEN Thrown ELSE SetProp(cur1, p, sub)

setDeep(obj, path, value) ==
  IF PathParts(path) = <<>> THEN obj ELSE SetPath(obj, PathParts(path), value)

RECURSIVE GetPath(_, _)
GetPath(cur, parts) ==
  IF parts = <<>> THEN cur
  ELSE IF ~Truthy(cur) \/ ~TypeofObject(cur) THEN Undefined
  ELSE GetPath(Get(cur, Head(parts)), Tail(parts))

getDeep(obj, path) == GetPath(obj, PathParts(path))

(* ---------------------------- field names ---------------------------- *)

\* what parseFieldName returns; hasSep tells arraySeparator from undefined
Field(type, key, hasSep, sep) ==
  [type |-> type, key |-> key, hasSep |-> hasSep, arraySeparator |-> sep]

\* left.match(/^([a-z]+)(\((.*)\))?$/i): a word, or a word and a payload in (...)
MatchesWord(left) == Len(left) = 1 /\ left[1] \in Letters

MatchesWordOpt(left) ==
  Len(left) >= 3 /\ left[1] \in Letters /\ left[2] = "(" /\ left[Len(left)] = ")"

parseFieldName(raw) ==
  LET typeSplit == split(raw, <<"::">>)
      left == typeSplit[1]
      key == join(Tail(typeSplit), <<"::">>)
  IN IF Len(typeSplit) = 1 THEN Field("string", raw, FALSE, <<>>)
     ELSE IF ~(MatchesWord(left) \/ MatchesWordOpt(left))
          THEN Field("string", raw, FALSE, <<>>)
     ELSE IF LowerLexeme(left[1]) = "array"
          THEN IF MatchesWordOpt(left)
               THEN Field("array", key, TRUE, SubSeq(left, 3, Len(left) - 1))
               ELSE Field("array", key, FALSE, <<>>)
     ELSE Field(LowerLexeme(left[1]), key, FALSE, <<>>)

(* ------------------------------ casting ------------------------------ *)

\* x => x.trim() over the pieces, then x => x.length > 0
RECURSIVE TrimPieces(_)
TrimPieces(parts) ==
  IF parts = <<>> THEN <<>>
  ELSE IF trim(Head(parts)) = <<>> THEN TrimPieces(Tail(parts))
  ELSE <<Str(trim(Head(parts)))>> \o TrimPieces(Tail(parts))

splitArrayValue(value, sep) ==
  IF trim(value) = <<>> THEN Arr(<<>>) ELSE Arr(TrimPieces(split(value, sep)))

\* true, false, or null (no match)
parseBoolean(value) ==
  LET v == toLowerCase(trim(value))
  IN IF v \in {<<"true">>, <<"1">>, <<"yes">>, <<"on">>} THEN Bool("true")
     ELSE IF v \in {<<"false">>, <<"0">>, <<"no">>, <<"off">>} THEN Bool("false")
     ELSE Null

\* Number(value) is finite: blank is 0, a numeral is its number
NumberIsFinite(value) ==
  trim(value) = <<>> \/ (Len(trim(value)) = 1 /\ trim(value)[1] \in DOMAIN IndexValue)

NumberOf(value) == IF trim(value) = <<>> THEN Num("0") ELSE Num(trim(value)[1])

\* new Date(value) has a time: the ISO date lexeme
DateIsValid(value) == value = <<"2026-01-01">>

\* JSON.parse on the JSON texts among the lexemes
JsonTable ==
  ("0" :> Num("0")) @@ ("1" :> Num("1")) @@ ("22" :> Num("22"))
  @@ ("true" :> Bool("true")) @@ ("null" :> Null)
  @@ ("\"\"" :> Str(<<>>))
  @@ ("[1,2]" :> Arr(<<Num("1"), Num("2")>>))
  @@ ("[null]" :> Arr(<<Null>>))
  @@ ("{}" :> EmptyObject)
  @@ ("{\"k\":[\"\"]}" :> Obj({<<(<<"k">>), Arr(<<Str(<<>>)>>)>>}))

JsonIsValid(value) == Len(trim(value)) = 1 /\ trim(value)[1] \in DOMAIN JsonTable

JsonParse(value) == JsonTable[trim(value)[1]]

\* the failure condition of a type on a raw string
CastFails(type, value) ==
  \/ type = "number" /\ ~NumberIsFinite(value)
  \/ type = "boolean" /\ parseBoolean(value) = Null
  \/ type = "date" /\ ~DateIsValid(value)
  \/ type = "json" /\ ~JsonIsValid(value)

\* a failed cast that falls back to null instead of the raw string
OnCastFailureNull(value, opts) == IF opts.strict THEN Thrown ELSE Null

\* what a failed cast gives: an Error when strict, else the raw string
OnCastFailure(value, opts) == IF opts.strict THEN Thrown ELSE Str(value)

castValue(type, raw, opts, hasSep, arraySeparator) ==
  IF type = "string" THEN Str(raw)
  ELSE IF type = "number"
       THEN IF ~NumberIsFinite(raw) THEN OnCastFailure(raw, opts) ELSE NumberOf(raw)
  ELSE IF type = "boolean"
       THEN IF parseBoolean(raw) = Null THEN OnCastFailure(raw, opts)
            ELSE parseBoolean(raw)
  ELSE IF type = "date"
       THEN IF ~DateIsValid(raw) THEN OnCastFailure(raw, opts) ELSE DateOf(raw)
  ELSE IF type = "json"
       THEN IF JsonIsValid(raw) THEN JsonParse(raw) ELSE OnCastFailure(raw, opts)
  ELSE IF type = "array"
       THEN splitArrayValue(raw, IF hasSep THEN arraySeparator
                                 ELSE opts.defaultArraySeparator)
  ELSE Str(raw)

(* ---------------------------- list entries --------------------------- *)

ListEntry(variant, name, index, value) ==
  [variant |-> variant, name |-> name, index |-> index, value |-> value]

\* the three conditions under which parseListEntry rejects a name
ListNameInvalid(rawName) ==
  LET parts == split(rawName, <<"::">>)
  IN \/ Len(parts) < 4
     \/ toLowerCase(parts[2]) \notin {<<"key">>, <<"value">>}
     \/ join(SubSeq(parts, 3, Len(parts) - 1), <<"::">>) = <<>>
     \/ parts[Len(parts)] = <<>>

\* [res |-> "entry", entry |-> ...], [res |-> "null"] or [res |-> "throw"]
parseListEntry(rawName, rawValue, opts) ==
  LET parts == split(rawName, <<"::">>)
      none == ListEntry("", <<>>, <<>>, <<>>)
  IN IF ListNameInvalid(rawName)
     THEN [res |-> IF opts.strict THEN "throw" ELSE "null", entry |-> none]
     ELSE [res |-> "entry",
           entry |-> ListEntry(toLowerCase(parts[2])[1],
                               join(SubSeq(parts, 3, Len(parts) - 1), <<"::">>),
                               parts[Len(parts)],
                               rawValue)]

\* entries.filter(entry => entry.variant === v)
RECURSIVE FilterVariant(_, _)
FilterVariant(entries, v) ==
  IF entries = <<>> THEN <<>>
  ELSE IF Head(entries).variant = v
       THEN <<Head(entries)>> \o FilterVariant(Tail(entries), v)
       ELSE FilterVariant(Tail(entries), v)

\* a lookup in which the first value entry of a pair wins
RECURSIVE MatchedValueFirst(_, _, _)
MatchedValueFirst(values, name, index) ==
  IF values = <<>> THEN <<>>
  ELSE IF Head(values).name \o <<"::">> \o Head(values).index
            = name \o <<"::">> \o index
       THEN Head(values).value
       ELSE MatchedValueFirst(Tail(values), name, index)

\* valueMap.get(name + "::" + index) ?? "": the last value entry set wins
RECURSIVE MatchedValue(_, _, _)
MatchedValue(values, name, index) ==
  IF values = <<>> THEN <<>>
  ELSE IF values[Len(values)].name \o <<"::">> \o values[Len(values)].index
            = name \o <<"::">> \o index
       THEN values[Len(values)].value
       ELSE MatchedValue(SubSeq(values, 1, Len(values) - 1), name, index)

\* one iteration of the loop over the key entries; Thrown if setDeep raises
ApplyKey(target, keyEntry, values) ==
  IF trim(keyEntry.value) = <<>> THEN target
  ELSE LET matchedValue == Str(MatchedValue(values, keyEntry.name, keyEntry.index))
           made == IF isPlainObject(getDeep(target, keyEntry.name)) THEN target
                   ELSE setDeep(target, keyEntry.name, EmptyObject)
       IN IF IsThrown(made) THEN Thrown
          ELSE IF ~isPlainObject(getDeep(made, keyEntry.name)) THEN made
          ELSE IF PathParts(keyEntry.name) = <<>>
               THEN SetProp(made, keyEntry.value, matchedValue)
          ELSE setDeep(made, keyEntry.name,
                       SetProp(getDeep(made, keyEntry.name), keyEntry.value,
                               matchedValue))

RECURSIVE ApplyKeys(_, _, _)
ApplyKeys(target, keys, values) ==
  IF keys = <<>> \/ IsThrown(target) THEN target
  ELSE ApplyKeys(ApplyKey(target, Head(keys), values), Tail(keys), values)

applyListEntries(entries, target) ==
  ApplyKeys(target, FilterVariant(entries, "key"), FilterVariant(entries, "value"))

(* ----------------------------- the parse ----------------------------- *)

\* an input entry: a name and a string, or a name and a File (s names it)
Entry(name, s) == [name |-> name, file |-> FALSE, s |-> s]
FileEntry(name, s) == [name |-> name, file |-> TRUE, s |-> s]

\* String(rawVal ?? "")
StringOf(e) == IF e.file THEN <<"[object File]">> ELSE e.s

\* an array field that replaces the stored array instead of extending it
MergeArrayReplacing(existing, parsed) ==
  IF IsArray(existing) THEN parsed
  ELSE IF existing # Undefined THEN Arr(<<existing>> \o parsed.el)
  ELSE parsed

\* the value an array-typed entry stores, from what the path holds
MergeArray(existing, parsed) ==
  IF IsArray(existing) THEN Arr(existing.el \o parsed.el)
  ELSE IF existing # Undefined THEN Arr(<<existing>> \o parsed.el)
  ELSE parsed

\* a repeated field nests the stored array instead of appending to it
MergeScalarNesting(existing, parsed) ==
  IF existing = Undefined THEN parsed ELSE Arr(<<existing, parsed>>)

\* the value a non-array entry stores, from what the path holds
MergeScalar(existing, parsed) ==
  IF existing = Undefined THEN parsed
  ELSE IF IsArray(existing) THEN Arr(existing.el \o <<parsed>>)
  ELSE Arr(<<existing, parsed>>)

\* opts.ignoreEmpty && rawString.trim() === ""
SkipsEmpty(e, opts) == opts.ignoreEmpty /\ trim(StringOf(e)) = <<>>

\* the loop body for an entry that is not a list entry: the new out, or Thrown
WriteField(out, e, opts) ==
  LET f == parseFieldName(e.name)
      parsed == castValue(f.type, StringOf(e), opts, f.hasSep, f.arraySeparator)
  IN IF e.file THEN setDeep(out, f.key, FileOf(e.s))
     ELSE IF SkipsEmpty(e, opts) THEN out
     ELSE IF IsThrown(parsed) THEN Thrown
     ELSE IF f.type = "array"
          THEN setDeep(out, f.key, MergeArray(getDeep(out, f.key), parsed))
     ELSE setDeep(out, f.key, MergeScalar(getDeep(out, f.key), parsed))

\* the loop body for a list entry: the new buffer
BufferList(listEntries, e, opts) ==
  IF parseListEntry(e.name, StringOf(e), opts).res = "entry"
  THEN Append(listEntries, parseListEntry(e.name, StringOf(e), opts).entry)
  ELSE listEntries

\* obj.filter(x => !isEmptyValue(x))
RECURSIVE FilterEmpty(_)
FilterEmpty(el) ==
  IF el = <<>> THEN <<>>
  ELSE IF isEmptyValue(Head(el)) THEN FilterEmpty(Tail(el))
  ELSE <<Head(el)>> \o FilterEmpty(Tail(el))

\* a cleanup that filters an array but does not descend into mappings
cleanShallow(obj) == IF IsArray(obj) THEN Arr(FilterEmpty(obj.el)) ELSE obj

RECURSIVE clean(_)
clean(obj) ==
  IF IsArray(obj) THEN Arr(FilterEmpty(obj.el))
  ELSE IF Truthy(obj) /\ TypeofObject(obj)
       THEN [obj EXCEPT !.pr = {<<q[1], clean(q[2])>> : q \in obj.pr}]
  ELSE obj

(* ------------------------------ inputs ------------------------------- *)

\* a key entry of a list group, part of every input pool
KeyEntryG == Entry(<<"list", "::", "key", "::", "g", "::", "0">>, <<"k">>)

\* fields of every non-array type on the path x, the empty path, x.length
ScalarPool ==
  { Entry(<<"string", "::", "x">>, <<"A">>),
    Entry(<<"x">>, <<>>),
    Entry(<<"number", "::", "x">>, <<"22">>),
    Entry(<<"number", "::", "x">>, <<"abc">>),
    Entry(<<"boolean", "::", "x", ".">>, <<" ", "TRUE">>),
    Entry(<<"boolean", "::", "x">>, <<" ">>),
    Entry(<<"date", "::", ".", "x">>, <<"2026-01-01">>),
    Entry(<<"date", "::", "x", ".", "length">>, <<"abc">>),
    Entry(<<"json", "::", "x">>, <<"[1,2]">>),
    Entry(<<"json", "::", "x">>, <<"[null]">>),
    Entry(<<"json", "::", "x">>, <<"\"\"">>),
    Entry(<<"json", "::", "x">>, <<"{\"k\":[\"\"]}">>),
    Entry(<<"json", "::", ".">>, <<"abc">>),
    KeyEntryG }

\* array fields on the path x, the empty path, x.0 and x.length
ArrayPool ==
  { Entry(<<"array", "::", "x">>, <<"a", ",", " ", ",", "b">>),
    Entry(<<"array", "(", ";", ")", "::", "x">>, <<"c", ";", "d">>),
    Entry(<<"array", "::", "x", ".">>, <<" ">>),
    Entry(<<"array", "::", "x", ".", "length">>, <<>>),
    Entry(<<"array", "::", "x", ".", "length">>, <<"a">>),
    Entry(<<"array", "::", "x", ".", "0">>, <<"b">>),
    Entry(<<"array", "::", ".">>, <<"a">>),
    Entry(<<"string", "::", "x">>, <<"A">>),
    KeyEntryG }

ListName(variant, group, index) ==
  <<"list", "::", variant, "::">> \o group \o <<"::">> \o index

\* list fields of the groups g, g.k, g::h, " " and ".", valid and not, and
\* non-list fields writing a string, an array and a File at the path g
ListPool ==
  { KeyEntryG,
    Entry(ListName("value", <<"g">>, <<"0">>), <<"v1">>),
    Entry(ListName("value", <<"g">>, <<"0">>), <<"v2">>),
    Entry(ListName("KEY", <<"g">>, <<"1">>), <<"k">>),
    Entry(ListName("value", <<"g">>, <<"1">>), <<"w">>),
    Entry(ListName("key", <<"g">>, <<"2">>), <<" ">>),
    Entry(ListName("key", <<"g", ".", "k">>, <<"0">>), <<"y">>),
    Entry(ListName("key", <<"g", "::", "h">>, <<"0">>), <<"y">>),
    Entry(ListName("key", <<" ">>, <<"0">>), <<"k">>),
    Entry(ListName("key", <<".">>, <<"0">>), <<"k">>),
    Entry(ListName("key", <<"g">>, <<>>), <<"k">>),
    Entry(ListName("x", <<"g">>, <<"0">>), <<"k">>),
    Entry(<<"list", "::", "key", "::", "g">>, <<"k">>),
    Entry(<<"g">>, <<"A">>),
    Entry(<<"array", "::", "g">>, <<"a">>),
    Entry(<<".">>, <<"A">>),
    FileEntry(<<"file", "::", "g">>, <<"f">>) }

\* fields writing an array, a Date, a string, null and a File at the path a,
\* and fields whose paths go through a
DeepPool ==
  { Entry(<<"array", "::", "a">>, <<"x", ",", "y">>),
    Entry(<<"date", "::", "a">>, <<"2026-01-01">>),
    Entry(<<"a">>, <<"A">>),
    Entry(<<"json", "::", "a">>, <<"null">>),
    FileEntry(<<"a">>, <<"f">>),
    Entry(<<"a", ".", "b">>, <<"1">>),
    Entry(<<"number", "::", "a", ".", "b", ".", "k">>, <<"22">>),
    Entry(<<"a", ".", "length">>, <<"1">>),
    Entry(<<"a", ".", "length", ".", "b">>, <<"1">>),
    Entry(<<"a", ".", "1">>, <<>>),
    Entry(ListName("key", <<"a", ".", "length">>, <<"0">>), <<"k">>),
    KeyEntryG }

\* the entries an input of the named pool is drawn from
PoolOf(name) ==
  CASE name = "scalar" -> ScalarPool
    [] name = "array" -> ArrayPool
    [] name = "list" -> ListPool
    [] name = "deep" -> DeepPool

(* --------------------------- the state machine ----------------------- *)

\* the longest input
MaxEntries == 3

VARIABLES
  opts,         \* the options of the call
  pool,         \* the name of the pool the input is drawn from
  entries,      \* the entries consumed so far, in order
  out,          \* the output tree
  listEntries,  \* the buffered list entries
  pc,           \* "loop", "apply", "done" or "error" (the call raised)
  ki,           \* in "apply": the next key entry
  prev          \* out as it was before the last step

vars == <<opts, pool, entries, out, listEntries, pc, ki, prev>>

keys == FilterVariant(listEntries, "key")
values == FilterVariant(listEntries, "value")

Options(strict, ignoreEmpty, sep) ==
  [strict |-> strict, ignoreEmpty |-> ignoreEmpty, defaultArraySeparator |-> sep]

AllOptions ==
  {Options(s, i, d) : s \in BOOLEAN, i \in BOOLEAN, d \in {<<",">>, <<";">>}}

Start(o, p) ==
  /\ opts = o
  /\ pool = p
  /\ entries = <<>>
  /\ out = EmptyObject
  /\ listEntries = <<>>
  /\ pc = "loop"
  /\ ki = 1
  /\ prev = EmptyObject

\* one iteration of the loop over the entries
ConsumeEntry(e) ==
  /\ pc = "loop"
  /\ Len(entries) < MaxEntries
  /\ entries' = Append(entries, e)
  /\ prev' = out
  /\ IF parseFieldName(e.name).type = "list"
     THEN /\ out' = out
          /\ listEntries' = BufferList(listEntries, e, opts)
          /\ pc' = IF parseListEntry(e.name, StringOf(e), opts).res = "throw"
                   THEN "error" ELSE "loop"
     ELSE /\ listEntries' = listEntries
          /\ out' = IF IsThrown(WriteField(out, e, opts)) THEN out
                    ELSE WriteField(out, e, opts)
          /\ pc' = IF IsThrown(WriteField(out, e, opts)) THEN "error" ELSE "loop"
  /\ UNCHANGED <<opts, pool, ki>>

\* the input is exhausted: applyListEntries starts
EndInput ==
  /\ pc = "loop"
  /\ pc' = "apply"
  /\ ki' = 1
  /\ UNCHANGED <<opts, pool, entries, out, listEntries, prev>>

\* one iteration of applyListEntries' loop over the key entries
ApplyKeyEntry ==
  /\ pc = "apply"
  /\ ki <= Len(keys)
  /\ prev' = out
  /\ ki' = ki + 1
  /\ out' = IF IsThrown(ApplyKey(out, keys[ki], values)) THEN out
            ELSE ApplyKey(out, keys[ki], values)
  /\ pc' = IF IsThrown(ApplyKey(out, keys[ki], values)) THEN "error" ELSE "apply"
  /\ UNCHANGED <<opts, pool, entries, listEntries>>

\* the cleanup pass and the return
Return ==
  /\ pc = "apply"
  /\ ki > Len(keys)
  /\ prev' = out
  /\ out' = IF opts.ignoreEmpty THEN clean(out) ELSE out
  /\ pc' = "done"
  /\ UNCHANGED <<opts, pool, entries, listEntries, ki>>

Next ==
  \/ \E e \in PoolOf(pool) : ConsumeEntry(e)
  \/ EndInput
  \/ ApplyKeyEntry
  \/ Return

\* the whole call as a function of its input, for comparing two inputs
RECURSIVE RunLoop(_, _, _, _)
RunLoop(o, l, es, op) ==
  IF es = <<>> THEN [out |-> o, listEntries |-> l, raised |-> FALSE]
  ELSE IF parseFieldName(Head(es).name).type = "list"
       THEN IF parseListEntry(Head(es).name, StringOf(Head(es)), op).res = "throw"
            THEN [out |-> o, listEntries |-> l, raised |-> TRUE]
            ELSE RunLoop(o, BufferList(l, Head(es), op), Tail(es), op)
  ELSE IF IsThrown(WriteField(o, Head(es), op))
       THEN [out |-> o, listEntries |-> l, raised |-> TRUE]
  ELSE RunLoop(WriteField(o, Head(es), op), l, Tail(es), op)

\* Thrown, or the returned structure
parseTypedFormData(es, op) ==
  LET r == RunLoop(EmptyObject, <<>>, es, op)
      applied == applyListEntries(r.listEntries, r.out)
  IN IF r.raised \/ IsThrown(applied) THEN Thrown
     ELSE IF op.ignoreEmpty THEN clean(applied) ELSE applied

Init ==
  \E s \in BOOLEAN, i \in BOOLEAN : Start(Options(s, i, <<",">>), "scalar")

Spec == Init /\ [][Next]_vars

(* ------------------------- reading the state ------------------------- *)

Last == entries[Len(entries)]

FieldOf(e) == parseFieldName(e.name)

\* the last step was an iteration of the entry loop, on Last
LastWasConsume == entries # <<>> /\ (pc = "loop" \/ (pc = "error" /\ ki = 1))

\* the last step was an iteration of the key-entry loop, on keys[ki - 1]
LastWasApply == ki > 1

ScalarTypes == {"string", "number", "boolean", "date", "json"}

\* the path addresses the length of an array stored in obj
RECURSIVE AddressesArrayLength(_, _)
AddressesArrayLength(obj, parts) ==
  /\ parts # <<>>
  /\ Truthy(obj) /\ TypeofObject(obj)
  /\ \/ IsArray(obj) /\ Head(parts) = <<"length">>
     \/ AddressesArrayLength(Get(obj, Head(parts)), Tail(parts))

(* -------------------------------- C1 --------------------------------- *)

\* the input is made of non-list, non-array string fields resolving to one path
SamePathScalars(es) ==
  /\ es # <<>>
  /\ \A i \in 1..Len(es) :
       /\ ~es[i].file
       /\ FieldOf(es[i]).type \in ScalarTypes
       /\ PathParts(FieldOf(es[i]).key) = PathParts(FieldOf(es[1]).key)

CastOf(e) == castValue(FieldOf(e).type, e.s, opts, FALSE, <<>>)

RECURSIVE CastsOf(_)
CastsOf(es) == IF es = <<>> THEN <<>> ELSE <<CastOf(Head(es))>> \o CastsOf(Tail(es))

\* the occurrences the entry loop does not skip as blank
RECURSIVE NotSkipped(_)
NotSkipped(es) ==
  IF es = <<>> THEN <<>>
  ELSE IF SkipsEmpty(Head(es), opts) THEN NotSkipped(Tail(es))
  ELSE <<Head(es)>> \o NotSkipped(Tail(es))

\* k occurrences give the cast value (k = 1) or the array of the k cast values
Promoted(casts) == IF Len(casts) = 1 THEN casts[1] ELSE Arr(casts)

\* C1 as stated (read for a path of at least one segment, ignoreEmpty off):
\* for every non-array type, k occurrences of a field resolving to the path and
\* nothing else leave at the path the cast value (k = 1) or the array of
\* exactly the k cast values in submission order (k >= 2).
C1_AsStated ==
  (/\ pc = "done"
   /\ SamePathScalars(entries)
   /\ PathParts(FieldOf(entries[1]).key) # <<>>
   /\ ~opts.ignoreEmpty)
    => getDeep(out, FieldOf(entries[1]).key) = Promoted(CastsOf(entries))

\* C1 amended: the same for a path of at least one segment, counting the
\* occurrences that are not skipped as blank under ignoreEmpty, when no cast
\* value is an array and, under ignoreEmpty, none is altered by the cleanup.
C1_Promotion ==
  (/\ pc = "done"
   /\ SamePathScalars(entries)
   /\ PathParts(FieldOf(entries[1]).key) # <<>>
   /\ NotSkipped(entries) # <<>>
   /\ \A i \in 1..Len(NotSkipped(entries)) :
        LET c == CastOf(NotSkipped(entries)[i])
        IN ~IsArray(c) /\ (opts.ignoreEmpty => ~isEmptyValue(c) /\ clean(c) = c))
    => getDeep(out, FieldOf(entries[1]).key) = Promoted(CastsOf(NotSkipped(entries)))

\* three occurrences of three types were promoted to an array of three
C1_Witness ==
  /\ pc = "done"
  /\ SamePathScalars(entries)
  /\ Len(entries) = 3
  /\ Own(out, <<"x">>) = Arr(<<Str(<<"A">>), Num("22"), Bool("true")>>)

(* -------------------------------- C4 --------------------------------- *)

FailTypes == {"number", "boolean", "date", "json"}

\* the last entry is a string field of a failing type with a failing raw string
LastCastFails ==
  /\ LastWasConsume
  /\ ~Last.file
  /\ FieldOf(Last).type \in FailTypes
  /\ CastFails(FieldOf(Last).type, Last.s)

\* the raw string of the last entry is at its path, alone or as the last element
LastRawStored ==
  LET v == getDeep(out, FieldOf(Last).key)
  IN v = Str(Last.s) \/ (IsArray(v) /\ v.el # <<>> /\ v.el[Len(v.el)] = Str(Last.s))

\* C4 as stated (read for a path of at least one segment): a raw string meeting
\* its type's failure condition raises when strict, and otherwise is stored
\* unchanged at the field's path.
C4_AsStated ==
  (LastCastFails /\ PathParts(FieldOf(Last).key) # <<>>)
    => IF opts.strict THEN pc = "error" ELSE pc = "loop" /\ LastRawStored

\* C4 amended: the same unless the entry is skipped as blank under ignoreEmpty
\* (then nothing is stored and nothing raises);
\* when not strict the raw string is stored on a path of at least one segment
\* that does not address the length of a stored array (there the write raises).
C4_FailurePolicy ==
  /\ (LastCastFails /\ SkipsEmpty(Last, opts)) => (pc = "loop" /\ out = prev)
  /\ (LastCastFails /\ ~SkipsEmpty(Last, opts))
       => IF opts.strict THEN pc = "error"
          ELSE IF AddressesArrayLength(prev, PathParts(FieldOf(Last).key))
               THEN pc = "error"
          ELSE /\ pc = "loop"
               /\ PathParts(FieldOf(Last).key) # <<>> => LastRawStored
               /\ PathParts(FieldOf(Last).key) = <<>> => out = prev

\* a failed number cast was kept as the raw string after an earlier value
C4_Witness ==
  /\ LastCastFails
  /\ ~opts.strict
  /\ Last.s = <<"abc">>
  /\ Own(out, <<"x">>) = Arr(<<Str(<<"A">>), Str(<<"abc">>)>>)

(* -------------------------------- C7 --------------------------------- *)

\* no array reached from v through mappings holds "" or null
RECURSIVE NoEmptyElements(_)
NoEmptyElements(v) ==
  IF IsArray(v)
  THEN \A i \in 1..Len(v.el) :
         ~(v.el[i].t = "null" \/ (v.el[i].t = "string" /\ v.el[i].s = <<>>))
  ELSE IF v.t = "object" THEN \A q \in v.pr : NoEmptyElements(q[2])
  ELSE TRUE

IsScalar(v) == v.t \in {"string", "number", "boolean", "null", "undefined"}

\* every scalar reached from a through mappings is the same in b
RECURSIVE ScalarsKept(_, _)
ScalarsKept(a, b) ==
  IF IsScalar(a) THEN b = a
  ELSE IF a.t = "object"
       THEN /\ b.t = "object"
            /\ \A q \in a.pr : HasOwn(b, q[1]) /\ ScalarsKept(q[2], Own(b, q[1]))
  ELSE TRUE

InitArray == \E o \in AllOptions : Start(o, "array")

SpecArray == InitArray /\ [][Next]_vars

\* the last step processed an array field given as a string, without raising
LastIsArrayField ==
  LastWasConsume /\ pc = "loop" /\ ~Last.file /\ FieldOf(Last).type = "array"

LastArrayCast ==
  castValue("array", Last.s, opts, FieldOf(Last).hasSep, FieldOf(Last).arraySeparator)

\* the three cases of the claim, from what the path held before the step
ClaimedArrayMerge(existing, new) ==
  IF existing = Undefined THEN new
  ELSE IF IsArray(existing) THEN Arr(existing.el \o new.el)
  ELSE Arr(<<existing>> \o new.el)

\* the input is made of array fields (strings) resolving to one path
SamePathArrays(es) ==
  /\ es # <<>>
  /\ \A i \in 1..Len(es) :
       /\ ~es[i].file
       /\ FieldOf(es[i]).type = "array"
       /\ PathParts(FieldOf(es[i]).key) = PathParts(FieldOf(es[1]).key)

\* the cast arrays of the entries, concatenated in submission order
RECURSIVE ConcatCasts(_)
ConcatCasts(es) ==
  IF es = <<>> THEN <<>>
  ELSE castValue("array", Head(es).s, opts, FieldOf(Head(es)).hasSep,
                 FieldOf(Head(es)).arraySeparator).el
       \o ConcatCasts(Tail(es))

InitList ==
  \E s \in BOOLEAN, i \in BOOLEAN : Start(Options(s, i, <<",">>), "list")

SpecList == InitList /\ [][Next]_vars

\* the key entry applied by the last step
LastKey == keys[ki - 1]

\* the raw string of the last value entry of the group and index, or ""
RECURSIVE LastValueFor(_, _, _)
LastValueFor(ls, name, index) ==
  IF ls = <<>> THEN <<>>
  ELSE IF /\ ls[Len(ls)].variant = "value"
          /\ ls[Len(ls)].name = name
          /\ ls[Len(ls)].index = index
       THEN ls[Len(ls)].value
       ELSE LastValueFor(SubSeq(ls, 1, Len(ls) - 1), name, index)

(* -------------------------------- C3 --------------------------------- *)

\* the input is made of valid list fields of one group
OneGroup(es) ==
  /\ Len(listEntries) = Len(es)
  /\ \A i \in 1..Len(listEntries) : listEntries[i].name = listEntries[1].name

\* C3 as stated (read for an input of list fields of one group): after a parse,
\* for every buffered key entry that is not blank, what is at the path of the
\* group has the property named by its raw string, holding the raw string of
\* the last value entry of its group and index, or "" without one.
C3_AsStated ==
  (pc = "done" /\ OneGroup(entries)) =>
    \A i \in 1..Len(keys) :
      trim(keys[i].value) # <<>> =>
        /\ HasOwn(getDeep(out, keys[i].name), keys[i].value)
        /\ Own(getDeep(out, keys[i].name), keys[i].value)
             = Str(LastValueFor(listEntries, keys[i].name, keys[i].index))

\* C3 amended: the same right after the key entry is applied (a later key entry
\* of the same group and raw string, or of a group below or above, overwrites
\* it), the container being a mapping or the File stored at the path; a blank
\* key entry changes nothing.
C3_Pairing ==
  (LastWasApply /\ pc = "apply") =>
    IF trim(LastKey.value) = <<>> THEN out = prev
    ELSE /\ getDeep(out, LastKey.name).t \in {"object", "file"}
         /\ HasOwn(getDeep(out, LastKey.name), LastKey.value)
         /\ Own(getDeep(out, LastKey.name), LastKey.value)
              = Str(LastValueFor(listEntries, LastKey.name, LastKey.index))

\* a key entry was paired with the second of two value entries of its index
C3_Witness ==
  /\ LastWasApply /\ pc = "apply"
  /\ Len(listEntries) = 3
  /\ getDeep(out, <<"g">>) = Obj({<<(<<"k">>), Str(<<"v2">>)>>})

(* -------------------------------- C5 --------------------------------- *)

\* the conditions of the claim: fewer than 4 segments, a variant that is not
\* key or value, a group name or an index that is empty after trimming
ClaimedListInvalid(rawName) ==
  LET parts == split(rawName, <<"::">>)
  IN \/ Len(parts) < 4
     \/ toLowerCase(parts[2]) \notin {<<"key">>, <<"value">>}
     \/ trim(join(SubSeq(parts, 3, Len(parts) - 1), <<"::">>)) = <<>>
     \/ trim(parts[Len(parts)]) = <<>>

\* the buffer as it was before the last entry
BufferBefore ==
  RunLoop(EmptyObject, <<>>, SubSeq(entries, 1, Len(entries) - 1), opts).listEntries

\* C5 as stated: a list field that is invalid by these conditions raises when
\* strict and is dropped otherwise.
C5_AsStated ==
  (LastWasConsume /\ FieldOf(Last).type = "list" /\ ClaimedListInvalid(Last.name))
    => IF opts.strict THEN pc = "error"
       ELSE pc = "loop" /\ listEntries = BufferBefore /\ out = prev

(* -------------------------------- C9 --------------------------------- *)

\* C9 as stated: a field whose path has no segment leaves the tree unchanged; a
\* list group whose path has no segment reads as absent and contributes nothing.
C9_AsStated ==
  /\ (LastWasConsume /\ pc = "loop" /\ FieldOf(Last).type # "list"
        /\ PathParts(FieldOf(Last).key) = <<>>)
       => out = prev
  /\ (LastWasApply /\ pc = "apply" /\ PathParts(LastKey.name) = <<>>)
       => (getDeep(prev, LastKey.name) = Undefined /\ out = prev)

(* -------------------------------- C10 -------------------------------- *)

RECURSIVE NonListOf(_)
NonListOf(es) ==
  IF es = <<>> THEN <<>>
  ELSE IF FieldOf(Head(es)).type = "list" THEN NonListOf(Tail(es))
  ELSE <<Head(es)>> \o NonListOf(Tail(es))

RECURSIVE ListOf(_)
ListOf(es) ==
  IF es = <<>> THEN <<>>
  ELSE IF FieldOf(Head(es)).type = "list" THEN <<Head(es)>> \o ListOf(Tail(es))
  ELSE ListOf(Tail(es))

\* the output depends only on the two subsequences of the input
OrderIndependent ==
  pc = "done" => out = parseTypedFormData(NonListOf(entries) \o ListOf(entries), opts)

\* C10 as stated: list entries are applied after every other entry, whatever
\* their place in the input, and when a key entry is applied a value at the
\* path of its group that is not a mapping is replaced by the group's mapping.
C10_AsStated ==
  /\ OrderIndependent
  /\ (LastWasApply /\ pc = "apply" /\ trim(LastKey.value) # <<>>)
       => getDeep(out, LastKey.name).t = "object"

(* ----------------------------- deep paths ---------------------------- *)

InitDeep ==
  \E s \in BOOLEAN, i \in BOOLEAN : Start(Options(s, i, <<",">>), "deep")

SpecDeep == InitDeep /\ [][Next]_vars

(* -------------------------------- C6 --------------------------------- *)

\* C6 as stated: when not strict, the call never raises.
C6_AsStated == ~opts.strict => pc # "error"

(* -------------------------------- C8 --------------------------------- *)

\* the last step wrote a field on a path of two segments or more
LastWroteDeep ==
  /\ LastWasConsume /\ pc = "loop"
  /\ FieldOf(Last).type # "list"
  /\ Last.file \/ ~SkipsEmpty(Last, opts)
  /\ Len(PathParts(FieldOf(Last).key)) >= 2

\* the value the last step handed to setDeep
LastWritten ==
  LET f == FieldOf(Last)
      parsed == castValue(f.type, Last.s, opts, f.hasSep, f.arraySeparator)
  IN IF Last.file THEN FileOf(Last.s)
     ELSE IF f.type = "array" THEN MergeArray(getDeep(prev, f.key), parsed)
     ELSE MergeScalar(getDeep(prev, f.key), parsed)

\* C8 as stated: after a write on a path of two segments or more, no node at an
\* intermediate segment is a scalar, an array or a Date (each was replaced by a
\* fresh mapping), and the final segment holds the value written.
C8_AsStated ==
  LastWroteDeep =>
    LET parts == PathParts(FieldOf(Last).key)
    IN /\ \A i \in 1..(Len(parts) - 1) :
            GetPath(out, SubSeq(parts, 1, i)).t \in {"object", "file"}
       /\ GetPath(out, parts) = LastWritten

====
